---- MODULE Spec2Model ----
(***************************************************************************)
(* State-machine model of src/src/main.rs: startup of the GPU context in   *)
(* renderwindow(), the winit event handlers (Resized, ScaleFactorChanged,  *)
(* CloseRequested, MainEventsCleared, RedrawRequested), the GPU that       *)
(* retires submitted frames concurrently, and Drop of ResourceHolder.      *)
(***************************************************************************)
EXTENDS Integers, Sequences, FiniteSets, TLC

VARIABLES
    pc,                   \* position of the main thread in renderwindow()
    error,                \* panic message of the failed expect/unwrap, "none" otherwise
    acquired,             \* handles created at startup, in creation order
    released,             \* handles released (destroy call or drop), in release order
    shader_modules,       \* live shader modules inside generate_pipeline
    queue_families,       \* adapter.queue_families as enumerated
    queue_family,         \* index of the selected family, 0 before selection
    scale_factor,         \* primary monitor's scale factor read at startup, in quarters
    command_pool_family,  \* family the command pool was created for, 0 before
    supported_formats,    \* result of surface.supported_formats (Option as a set)
    surface_color_format, \* negotiated format
    surface_extent,       \* let mut surface_extent
    configure_swapchain,  \* let mut configure_swapchain (the dirty flag)
    swapchain,            \* extent of the configured swapchain (Option as a set)
    framebuffer,          \* extent of the live transient framebuffer (Option as a set)
    viewport,             \* rect of the viewport/scissor last recorded
    fence,                \* submission_fence: "signaled" or "unsignaled"
    inflight,             \* frames submitted to the queue and not yet retired
    tick_ops,             \* GPU operations of the current (or last) redraw tick, in order
    last_event,           \* kind of the last handled event
    tick_after,           \* kind of the event that preceded the current (or last) tick
    last_outcome,         \* how the last finished tick ended
    last_event_extent,    \* extent carried by the last resize/DPI event (initial extent before any)
    cfg_target,           \* extent passed to SwapchainConfig::from_caps by the last configure
    use_after_destroy     \* a teardown call used a handle that was already released

vars == <<pc, error, acquired, released, shader_modules, queue_families, queue_family, scale_factor, command_pool_family,
          supported_formats, surface_color_format, surface_extent, configure_swapchain,
          swapchain, framebuffer, viewport, fence, inflight, tick_ops, last_event,
          tick_after, last_outcome, last_event_extent, cfg_target,
          use_after_destroy>>

(***************************************************************************)
(* Bounds of the model.                                                    *)
(***************************************************************************)
\* longest list of supported formats the surface reports
MaxFormats == 2
\* longest list of queue families of the first adapter
MaxFamilies == 2
\* frames the GPU may have outstanding when a fence wait times out
MaxInFlight == 2

(***************************************************************************)
(* Values.                                                                 *)
(***************************************************************************)
Extent(w, h) == [width |-> w, height |-> h]

\* const WINDOW_SIZE: [u32; 2] = [2160, 3840]
WINDOW_SIZE == Extent(2160, 3840)

\* Monitor scale factors, in quarters (4 is 1.0, 6 is 1.5).
ScaleFactors == {4, 6}

\* Extents a Resized or ScaleFactorChanged event may carry.
EventExtents == {Extent(800, 600), Extent(40000, 70000)}

\* Surface capabilities the adapter may report: current_extent is an Option
\* (a set of at most one extent), extents is the inclusive range min..max.
CapsSet ==
    { [current_extent |-> {}, min |-> Extent(1, 1), max |-> Extent(100000, 100000)],
      [current_extent |-> {}, min |-> Extent(1, 1), max |-> Extent(4096, 4096)],
      [current_extent |-> {Extent(1024, 768)}, min |-> Extent(1, 1),
       max |-> Extent(4096, 4096)] }

\* gfx_hal formats with their base channel type.
Formats == {"Rgba8Srgb", "Bgra8Srgb", "Rgba8Unorm", "Bgra8Unorm"}

ChannelType(format) ==
    IF format \in {"Rgba8Srgb", "Bgra8Srgb"} THEN "Srgb" ELSE "Unorm"

SeqsUpTo(S, n) == UNION {[1..k -> S] : k \in 0..n}

\* A queue family: whether the surface supports it and whether it supports graphics.
Families == [present : BOOLEAN, graphics : BOOLEAN]

Min(a, b) == IF a < b THEN a ELSE b
Max(a, b) == IF a > b THEN a ELSE b

Count(ops, op) == Cardinality({i \in 1..Len(ops) : ops[i] = op})

Reverse(s) == [i \in 1..Len(s) |-> s[Len(s) + 1 - i]]

Has(s, x) == \E i \in 1..Len(s) : s[i] = x

\* Handles created and not released.
Live == {acquired[i] : i \in 1..Len(acquired)} \ {released[i] : i \in 1..Len(released)}

(***************************************************************************)
(* Pure functions of the startup code.                                     *)
(***************************************************************************)
\* A conversion that takes the logical size as the physical size.
ToPhysicalIgnoresScale(logical, dpi) == Extent(logical.width, logical.height)

\* LogicalSize<u32>::to_physical(dpi): each side times the scale factor,
\* rounded to the nearest integer (dpi in quarters).
ToPhysical(logical, dpi) ==
    Extent((logical.width * dpi * 2 + 4) \div 8, (logical.height * dpi * 2 + 4) \div 8)

\* A selection that asks for graphics support only.
FindQueueFamilyGraphicsOnly(families) ==
    LET ok == {i \in 1..Len(families) : families[i].graphics}
    IN  IF ok = {} THEN 0 ELSE CHOOSE i \in ok : \A j \in ok : i <= j

\* .iter().find(|family| surface.supports_queue_family(family) &&
\*                       family.queue_type().supports_graphics())
\* as the index of the family found, 0 when there is none.
FindQueueFamily(families) ==
    LET ok == {i \in 1..Len(families) : families[i].present /\ families[i].graphics}
    IN  IF ok = {} THEN 0 ELSE CHOOSE i \in ok : \A j \in ok : i <= j

\* A negotiation that keeps the last sRGB format instead of the first.
NegotiateFormatLastSrgb(queried) ==
    LET formats == IF queried = {} THEN <<>> ELSE CHOOSE s \in queried : TRUE
        default_format == IF Len(formats) > 0 THEN formats[1] ELSE "Rgba8Srgb"
        srgb == {i \in 1..Len(formats) : ChannelType(formats[i]) = "Srgb"}
    IN  IF srgb = {} THEN default_format
        ELSE formats[CHOOSE i \in srgb : \A j \in srgb : i >= j]

\* The surface_color_format block: supported_formats(..).unwrap_or(vec![]),
\* default_format = first entry or Rgba8Srgb, then the first format whose
\* base channel type is Srgb, or default_format.
NegotiateFormat(queried) ==
    LET formats == IF queried = {} THEN <<>> ELSE CHOOSE s \in queried : TRUE
        default_format == IF Len(formats) > 0 THEN formats[1] ELSE "Rgba8Srgb"
        srgb == {i \in 1..Len(formats) : ChannelType(formats[i]) = "Srgb"}
    IN  IF srgb = {} THEN default_format
        ELSE formats[CHOOSE i \in srgb : \A j \in srgb : i <= j]

\* Unwinding out of renderwindow() drops its locals; of the handles only the
\* device and the instance are owners that release themselves when dropped,
\* the device (declared later) first.
UnwindDrops(acq) ==
    SelectSeq(<<"device", "instance">>, LAMBDA h : Has(acq, h))

(***************************************************************************)
(* Initial state: the window exists, surface_extent is the physical size.  *)
(***************************************************************************)
Init ==
    /\ pc = "create_instance"
    /\ error = "none"
    /\ acquired = <<>>
    /\ released = <<>>
    /\ shader_modules = {}
    /\ queue_families = <<>>
    /\ queue_family = 0
    /\ supported_formats = {}
    /\ surface_color_format = "none"
    /\ scale_factor \in ScaleFactors
    /\ command_pool_family = 0
    /\ surface_extent = ToPhysical(WINDOW_SIZE, scale_factor)
    /\ configure_swapchain = FALSE
    /\ swapchain = {}
    /\ framebuffer = {}
    /\ viewport = [x |-> 0, y |-> 0, w |-> 0, h |-> 0]
    /\ fence = "none"
    /\ inflight = 0
    /\ tick_ops = <<>>
    /\ last_event = "startup"
    /\ tick_after = "startup"
    /\ last_outcome = "none"
    /\ last_event_extent = surface_extent
    /\ cfg_target = Extent(0, 0)
    /\ use_after_destroy = FALSE

(***************************************************************************)
(* Startup, lines 206-329.  A failed expect/unwrap/? leaves renderwindow() *)
(* with every handle created so far still a local.                         *)
(***************************************************************************)
startupRest == <<shader_modules, surface_extent, configure_swapchain, swapchain,
                 framebuffer, viewport, inflight, tick_ops, last_event, tick_after,
                 last_outcome, last_event_extent, cfg_target, use_after_destroy>>

StartupAbort(msg) ==
    /\ pc' = "aborted"
    /\ error' = msg
    /\ released' = released \o UnwindDrops(acquired)
    /\ acquired' = acquired

\* One fallible creation call: the handle on success, the abort otherwise.
StartupCreate(handle, next, msg) ==
    \E ok \in BOOLEAN :
        IF ok
        THEN /\ pc' = next
             /\ acquired' = Append(acquired, handle)
             /\ UNCHANGED <<error, released>>
        ELSE StartupAbort(msg)

CreateInstance ==
    /\ pc = "create_instance"
    /\ StartupCreate("instance", "create_surface", "Unsupported backend]")
    /\ UNCHANGED <<queue_families, queue_family, scale_factor, command_pool_family, supported_formats,
                   surface_color_format, fence>>
    /\ UNCHANGED startupRest

CreateSurface ==
    /\ pc = "create_surface"
    /\ StartupCreate("surface", "enumerate_adapters", "create_surface")
    /\ UNCHANGED <<queue_families, queue_family, scale_factor, command_pool_family, supported_formats,
                   surface_color_format, fence>>
    /\ UNCHANGED startupRest

\* instance.enumerate_adapters().remove(0): the first adapter, a panic when
\* there is none.
EnumerateAdapters ==
    /\ pc = "enumerate_adapters"
    /\ \E found \in BOOLEAN :
        IF found
        THEN /\ \E families \in SeqsUpTo(Families, MaxFamilies) :
                    queue_families' = families
             /\ pc' = "open_device"
             /\ UNCHANGED <<error, acquired, released>>
        ELSE /\ StartupAbort("removal index out of bounds")
             /\ UNCHANGED queue_families
    /\ UNCHANGED <<queue_family, scale_factor, command_pool_family, supported_formats, surface_color_format, fence>>
    /\ UNCHANGED startupRest

\* Queue family selection and physical_device.open, lines 212-231.
OpenDevice ==
    /\ pc = "open_device"
    /\ IF FindQueueFamily(queue_families) = 0
       THEN /\ StartupAbort("No compatible queue family found")
            /\ UNCHANGED queue_family
       ELSE /\ StartupCreate("device", "create_command_pool", "Failed to open device")
            /\ queue_family' = IF pc' = "aborted" THEN queue_family
                               ELSE FindQueueFamily(queue_families)
    /\ UNCHANGED <<queue_families, scale_factor, command_pool_family, supported_formats,
                   surface_color_format, fence>>
    /\ UNCHANGED startupRest

CreateCommandPool ==
    /\ pc = "create_command_pool"
    /\ StartupCreate("command_pool", "negotiate_format", "Out of memory")
    /\ command_pool_family' = IF pc' = "aborted" THEN command_pool_family
                               ELSE queue_family
    /\ UNCHANGED <<queue_families, queue_family, scale_factor, supported_formats,
                   surface_color_format, fence>>
    /\ UNCHANGED startupRest

\* Lines 248-261; the query returns None or a list of formats.
SurfaceColorFormat ==
    /\ pc = "negotiate_format"
    /\ \E queried \in {{}} \cup {{s} : s \in SeqsUpTo(Formats, MaxFormats)} :
        /\ supported_formats' = queried
        /\ surface_color_format' = NegotiateFormat(queried)
    /\ pc' = "create_render_pass"
    /\ UNCHANGED <<error, acquired, released, queue_families, queue_family, scale_factor, command_pool_family, fence>>
    /\ UNCHANGED startupRest

CreateRenderPass ==
    /\ pc = "create_render_pass"
    /\ StartupCreate("render_pass", "create_pipeline_layout", "Out of memory")
    /\ UNCHANGED <<queue_families, queue_family, scale_factor, command_pool_family, supported_formats,
                   surface_color_format, fence>>
    /\ UNCHANGED startupRest

CreatePipelineLayout ==
    /\ pc = "create_pipeline_layout"
    /\ StartupCreate("pipeline_layout", "vertex_shader", "Out of memory")
    /\ UNCHANGED <<queue_families, queue_family, scale_factor, command_pool_family, supported_formats,
                   surface_color_format, fence>>
    /\ UNCHANGED startupRest

\* generate_pipeline, lines 99-101: compile the vertex source, create its module.
VertexShader ==
    /\ pc = "vertex_shader"
    /\ \E result \in {"ok", "compile_error", "module_error"} :
        IF result = "ok"
        THEN /\ shader_modules' = shader_modules \cup {"vertex_shader_module"}
             /\ pc' = "fragment_shader"
             /\ UNCHANGED <<error, acquired, released>>
        ELSE /\ StartupAbort(IF result = "compile_error"
                             THEN "Failed to compile shader"
                             ELSE "Failed to create vertex shader module")
             /\ UNCHANGED shader_modules
    /\ UNCHANGED <<queue_families, queue_family, scale_factor, command_pool_family, supported_formats, surface_color_format,
                   fence, surface_extent, configure_swapchain, swapchain, framebuffer,
                   viewport, inflight, tick_ops, last_event, tick_after, last_outcome,
                   last_event_extent, cfg_target, use_after_destroy>>

\* generate_pipeline, lines 103-109: the same for the fragment source.
FragmentShader ==
    /\ pc = "fragment_shader"
    /\ \E result \in {"ok", "compile_error", "module_error"} :
        IF result = "ok"
        THEN /\ shader_modules' = shader_modules \cup {"fragment_shader_module"}
             /\ pc' = "create_graphics_pipeline"
             /\ UNCHANGED <<error, acquired, released>>
        ELSE /\ StartupAbort(IF result = "compile_error"
                             THEN "Failed to compile shader"
                             ELSE "Failed to create vertex shader module")
             /\ UNCHANGED shader_modules
    /\ UNCHANGED <<queue_families, queue_family, scale_factor, command_pool_family, supported_formats, surface_color_format,
                   fence, surface_extent, configure_swapchain, swapchain, framebuffer,
                   viewport, inflight, tick_ops, last_event, tick_after, last_outcome,
                   last_event_extent, cfg_target, use_after_destroy>>

\* generate_pipeline, lines 152-158: create the pipeline, then destroy both modules.
CreateGraphicsPipeline ==
    /\ pc = "create_graphics_pipeline"
    /\ StartupCreate("pipeline", "create_fence", "Failed to create graphics pipeline")
    /\ shader_modules' = IF pc' = "aborted" THEN shader_modules ELSE {}
    /\ UNCHANGED <<queue_families, queue_family, scale_factor, command_pool_family, supported_formats, surface_color_format,
                   fence, surface_extent, configure_swapchain, swapchain, framebuffer,
                   viewport, inflight, tick_ops, last_event, tick_after, last_outcome,
                   last_event_extent, cfg_target, use_after_destroy>>

\* device.create_fence(true): the fence starts signaled.
CreateFence ==
    /\ pc = "create_fence"
    /\ StartupCreate("submission_fence", "create_semaphore", "Out of memory")
    /\ fence' = IF pc' = "aborted" THEN fence ELSE "signaled"
    /\ UNCHANGED <<queue_families, queue_family, scale_factor, command_pool_family, supported_formats, surface_color_format>>
    /\ UNCHANGED startupRest

CreateSemaphore ==
    /\ pc = "create_semaphore"
    /\ StartupCreate("rendering_semaphore", "enter_loop", "Out of memory")
    /\ UNCHANGED <<queue_families, queue_family, scale_factor, command_pool_family, supported_formats,
                   surface_color_format, fence>>
    /\ UNCHANGED startupRest

\* Lines 315-331: the handles move into the ResourceHolder, the dirty flag is
\* created true and the event loop starts.  The enumerated families and the
\* queried formats are not read again and are forgotten here.
EnterEventLoop ==
    /\ pc = "enter_loop"
    /\ configure_swapchain' = TRUE
    /\ queue_families' = <<>>
    /\ supported_formats' = {}
    /\ pc' = "idle"
    /\ UNCHANGED <<error, acquired, released, shader_modules, queue_family, scale_factor, command_pool_family,
                   surface_color_format, surface_extent, swapchain, framebuffer,
                   viewport, fence, inflight, tick_ops, last_event, tick_after,
                   last_outcome, last_event_extent, cfg_target,
                   use_after_destroy>>

(***************************************************************************)
(* Window events, lines 337-358.                                           *)
(***************************************************************************)
eventRest == <<error, acquired, released, shader_modules, queue_families, queue_family, scale_factor, command_pool_family,
               supported_formats, surface_color_format, swapchain, framebuffer,
               viewport, fence, inflight, tick_ops, tick_after, last_outcome,
               cfg_target, use_after_destroy>>

\* A Resized handler that stores the extent and leaves the flag alone.
ResizedWithoutFlag ==
    /\ pc = "idle"
    /\ \E updated \in EventExtents :
        /\ surface_extent' = Extent(updated.width, updated.height)
        /\ last_event_extent' = updated
    /\ last_event' = "resized"
    /\ UNCHANGED <<pc, configure_swapchain>>
    /\ UNCHANGED eventRest

\* A Resized handler that sets the flag and keeps the old extent.
ResizedKeepsExtent ==
    /\ pc = "idle"
    /\ \E updated \in EventExtents : last_event_extent' = updated
    /\ configure_swapchain' = TRUE
    /\ last_event' = "resized"
    /\ UNCHANGED <<pc, surface_extent>>
    /\ UNCHANGED eventRest

Resized ==
    /\ pc = "idle"
    /\ \E updated \in EventExtents :
        /\ surface_extent' = Extent(updated.width, updated.height)
        /\ last_event_extent' = updated
    /\ configure_swapchain' = TRUE
    /\ last_event' = "resized"
    /\ UNCHANGED pc
    /\ UNCHANGED eventRest

ScaleFactorChanged ==
    /\ pc = "idle"
    /\ \E new_inner_size \in EventExtents :
        /\ surface_extent' = Extent(new_inner_size.width, new_inner_size.height)
        /\ last_event_extent' = new_inner_size
    /\ configure_swapchain' = TRUE
    /\ last_event' = "scale_factor_changed"
    /\ UNCHANGED pc
    /\ UNCHANGED eventRest

\* window.request_redraw(): no state of the program changes.
MainEventsCleared ==
    /\ pc = "idle"
    /\ UNCHANGED vars

\* *control_flow = ControlFlow::Exit: the loop ends and the closure, with the
\* ResourceHolder it owns, is dropped.
CloseRequested ==
    /\ pc = "idle"
    /\ pc' = "drop"
    /\ last_event' = "close_requested"
    /\ UNCHANGED <<surface_extent, configure_swapchain, last_event_extent>>
    /\ UNCHANGED eventRest

(***************************************************************************)
(* The RedrawRequested handler, lines 360-499, in the steps at which the   *)
(* GPU can be observed.  No other event is handled before it returns.      *)
(***************************************************************************)
\* SurfaceCapabilities::clamped_extent, used by SwapchainConfig::from_caps:
\* the surface's current extent when it has one, else the requested extent
\* clamped into the supported range.
ClampedExtent(caps, default_extent) ==
    IF caps.current_extent # {}
    THEN CHOOSE e \in caps.current_extent : TRUE
    ELSE Extent(Min(caps.max.width, Max(default_extent.width, caps.min.width)),
                Min(caps.max.height, Max(default_extent.height, caps.min.height)))

\* `as i16` of a u32: the low 16 bits, read as two's complement.
AsI16(v) ==
    LET low == v % 65536
    IN  IF low >= 32768 THEN low - 65536 ELSE low

\* Dimensions::Rect { x: 0, y: 0, w: width as i16, h: height as i16 }
ViewportRect(extent) ==
    [x |-> 0, y |-> 0, w |-> AsI16(extent.width), h |-> AsI16(extent.height)]

\* A failed expect/unwrap inside the handler unwinds out of the event loop;
\* the closure and the ResourceHolder it owns are dropped.
LoopPanic(msg) ==
    /\ pc' = "drop"
    /\ error' = msg

\* The handler returns.
EndTick(outcome) ==
    /\ pc' = "idle"
    /\ last_event' = "redraw"
    /\ last_outcome' = outcome

tickFixed == <<acquired, released, shader_modules, queue_families, queue_family, scale_factor, command_pool_family,
               supported_formats, surface_color_format, last_event_extent, use_after_destroy>>

RedrawRequested ==
    /\ pc = "idle"
    /\ pc' = "wait"
    /\ tick_ops' = <<>>
    /\ tick_after' = last_event
    /\ UNCHANGED <<error, surface_extent, configure_swapchain, swapchain, framebuffer,
                   viewport, fence, inflight, last_event, last_outcome, cfg_target>>
    /\ UNCHANGED tickFixed

\* wait_for_fence(&submission_fence, TIMOUT).expect(..): Ok(true) when the
\* fence is signaled, Ok(false) when the timeout passes first, Err when the
\* device is lost.  expect unwraps the Ok and the bool is not read.
WaitForFence ==
    /\ pc = "wait"
    /\ \E result \in {"signaled", "timeout", "device_lost"} :
        CASE result = "signaled" ->
                /\ fence = "signaled"
                /\ tick_ops' = Append(tick_ops, "wait_ok")
                /\ pc' = "reset"
                /\ UNCHANGED error
          [] result = "timeout" ->
                /\ fence = "unsignaled"
                /\ inflight < MaxInFlight
                /\ tick_ops' = Append(tick_ops, "wait_timeout")
                /\ pc' = "reset"
                /\ UNCHANGED error
          [] OTHER ->
                /\ LoopPanic("Failed to wait for fence")
                /\ UNCHANGED tick_ops
    /\ UNCHANGED <<surface_extent, configure_swapchain, swapchain, framebuffer, viewport,
                   fence, inflight, last_event, tick_after, last_outcome, cfg_target>>
    /\ UNCHANGED tickFixed

\* reset_fence(..).expect("Out of memory"); command_pool.reset(false)
ResetFence ==
    /\ pc = "reset"
    /\ \E ok \in BOOLEAN :
        IF ok
        THEN /\ fence' = "unsignaled"
             /\ tick_ops' = tick_ops \o <<"reset_fence", "reset_pool">>
             /\ pc' = "check"
             /\ UNCHANGED error
        ELSE /\ LoopPanic("Out of memory")
             /\ UNCHANGED <<fence, tick_ops>>
    /\ UNCHANGED <<surface_extent, configure_swapchain, swapchain, framebuffer, viewport,
                   inflight, last_event, tick_after, last_outcome, cfg_target>>
    /\ UNCHANGED tickFixed

\* `if configure_swapchain { .. }` with the flag false: the handler returns.
SkipFrame ==
    /\ pc = "check"
    /\ ~configure_swapchain
    /\ EndTick("skipped")
    /\ UNCHANGED <<error, surface_extent, configure_swapchain, swapchain, framebuffer,
                   viewport, fence, inflight, tick_ops, tick_after, cfg_target>>
    /\ UNCHANGED tickFixed

\* A configure step that drops the result of configure_swapchain and goes on.
ConfigureSwapchainIgnoresError ==
    /\ pc = "check"
    /\ configure_swapchain
    /\ \E caps \in CapsSet, ok \in BOOLEAN :
        LET extent == ClampedExtent(caps, surface_extent)
        IN  /\ cfg_target' = surface_extent
            /\ surface_extent' = extent
            /\ swapchain' = IF ok THEN {extent} ELSE swapchain
            /\ tick_ops' = Append(tick_ops, IF ok THEN "configure_ok" ELSE "configure_err")
    /\ configure_swapchain' = FALSE
    /\ pc' = "acquire"
    /\ UNCHANGED <<error, framebuffer, viewport, fence, inflight, last_event, tick_after,
                   last_outcome>>
    /\ UNCHANGED tickFixed

\* Lines 384-409: capabilities, from_caps, surface_extent = config.extent,
\* configure_swapchain(..).expect(..), configure_swapchain = false.
ConfigureSwapchain ==
    /\ pc = "check"
    /\ configure_swapchain
    /\ \E caps \in CapsSet, ok \in BOOLEAN :
        LET extent == ClampedExtent(caps, surface_extent)
        IN  /\ cfg_target' = surface_extent
            /\ surface_extent' = extent
            /\ IF ok
               THEN /\ swapchain' = {extent}
                    /\ configure_swapchain' = FALSE
                    /\ tick_ops' = Append(tick_ops, "configure_ok")
                    /\ pc' = "acquire"
                    /\ UNCHANGED error
               ELSE /\ LoopPanic("Failed to configure swapchain")
                    /\ tick_ops' = Append(tick_ops, "configure_err")
                    /\ UNCHANGED <<swapchain, configure_swapchain>>
    /\ UNCHANGED <<framebuffer, viewport, fence, inflight, last_event, tick_after,
                   last_outcome>>
    /\ UNCHANGED tickFixed

\* An acquire step that sets the flag on Err and does not return.
AcquireImageWithoutReturn ==
    /\ pc = "acquire"
    /\ \E ok \in BOOLEAN :
        /\ configure_swapchain' = (configure_swapchain \/ ~ok)
        /\ tick_ops' = Append(tick_ops, IF ok THEN "acquire_ok" ELSE "acquire_err")
    /\ pc' = "record"
    /\ UNCHANGED <<error, surface_extent, swapchain, framebuffer, viewport, fence,
                   inflight, last_event, tick_after, last_outcome, cfg_target>>
    /\ UNCHANGED tickFixed

\* Lines 411-419: acquire_image(TIMOUT); on Err set the flag and return.
AcquireImage ==
    /\ pc = "acquire"
    /\ \E ok \in BOOLEAN :
        IF ok
        THEN /\ tick_ops' = Append(tick_ops, "acquire_ok")
             /\ pc' = "record"
             /\ UNCHANGED <<configure_swapchain, last_event, last_outcome>>
        ELSE /\ configure_swapchain' = TRUE
             /\ tick_ops' = Append(tick_ops, "acquire_err")
             /\ EndTick("acquire_failed")
    /\ UNCHANGED <<error, surface_extent, swapchain, framebuffer, viewport, fence,
                   inflight, tick_after, cfg_target>>
    /\ UNCHANGED tickFixed

\* Lines 421-478: create_framebuffer(..).unwrap(), the viewport, and the
\* recording of the command buffer.
RecordFrame ==
    /\ pc = "record"
    /\ \E ok \in BOOLEAN :
        IF ok
        THEN /\ framebuffer' = {surface_extent}
             /\ viewport' = ViewportRect(surface_extent)
             /\ tick_ops' = Append(tick_ops, "record")
             /\ pc' = "submit"
             /\ UNCHANGED error
        ELSE /\ LoopPanic("create_framebuffer")
             /\ UNCHANGED <<framebuffer, viewport, tick_ops>>
    /\ UNCHANGED <<surface_extent, configure_swapchain, swapchain, fence, inflight,
                   last_event, tick_after, last_outcome, cfg_target>>
    /\ UNCHANGED tickFixed

\* Lines 480-486: submit the command buffer, signaling rendering_semaphore
\* and submission_fence when it retires.
Submit ==
    /\ pc = "submit"
    /\ inflight' = inflight + 1
    /\ tick_ops' = Append(tick_ops, "submit")
    /\ pc' = "present"
    /\ UNCHANGED <<error, surface_extent, configure_swapchain, swapchain, framebuffer,
                   viewport, fence, last_event, tick_after, last_outcome, cfg_target>>
    /\ UNCHANGED tickFixed

\* A present flag update that drops the result of present.
PresentFlagIgnoresResult(is_err) == configure_swapchain

\* configure_swapchain |= result.is_err()
PresentFlag(is_err) == configure_swapchain \/ is_err

\* Lines 488-496: present, configure_swapchain |= result.is_err(),
\* destroy_framebuffer; the handler returns.
Present ==
    /\ pc = "present"
    /\ \E is_err \in BOOLEAN :
        /\ configure_swapchain' = PresentFlag(is_err)
        /\ tick_ops' = Append(tick_ops, IF is_err THEN "present_err" ELSE "present_ok")
        /\ EndTick(IF is_err THEN "present_failed" ELSE "presented")
    /\ framebuffer' = {}
    /\ UNCHANGED <<error, surface_extent, swapchain, viewport, fence, inflight,
                   tick_after, cfg_target>>
    /\ UNCHANGED tickFixed

(***************************************************************************)
(* The GPU: a submitted frame retires and signals the fence it was         *)
(* submitted with.                                                         *)
(***************************************************************************)
GpuRetire ==
    /\ inflight > 0
    /\ inflight' = inflight - 1
    /\ fence' = "signaled"
    /\ UNCHANGED <<pc, error, acquired, released, shader_modules, queue_families,
                   queue_family, scale_factor, command_pool_family, supported_formats, surface_color_format, surface_extent,
                   configure_swapchain, swapchain, framebuffer, viewport, tick_ops,
                   last_event, tick_after, last_outcome, last_event_extent, cfg_target,
                   use_after_destroy>>

(***************************************************************************)
(* Drop of ResourceHolder, lines 30-64.                                    *)
(***************************************************************************)
\* A drop() that destroys the render pass before the pipeline built on it.
DropCallsRenderPassFirst ==
    << [handle |-> "rendering_semaphore", uses |-> {"device"}],
       [handle |-> "submission_fence", uses |-> {"device"}],
       [handle |-> "render_pass", uses |-> {"device"}],
       [handle |-> "pipeline", uses |-> {"device"}],
       [handle |-> "pipeline_layout", uses |-> {"device"}],
       [handle |-> "command_pool", uses |-> {"device"}],
       [handle |-> "swapchain", uses |-> {"surface", "device"}],
       [handle |-> "surface", uses |-> {"instance"}],
       [handle |-> "device", uses |-> {}],
       [handle |-> "instance", uses |-> {}] >>

\* The calls of drop() in order: the handle released and the handles the
\* call goes through.  The last two are the moved-out device and instance
\* going out of scope at the end of the block, in reverse order of binding.
DropCalls ==
    << [handle |-> "rendering_semaphore", uses |-> {"device"}],
       [handle |-> "submission_fence", uses |-> {"device"}],
       [handle |-> "pipeline", uses |-> {"device"}],
       [handle |-> "pipeline_layout", uses |-> {"device"}],
       [handle |-> "render_pass", uses |-> {"device"}],
       [handle |-> "command_pool", uses |-> {"device"}],
       [handle |-> "swapchain", uses |-> {"surface", "device"}],
       [handle |-> "surface", uses |-> {"instance"}],
       [handle |-> "device", uses |-> {}],
       [handle |-> "instance", uses |-> {}] >>

\* The handles the calls of drop() release, in order.
DropOrder == [i \in 1..Len(DropCalls) |-> DropCalls[i].handle]

\* Call i goes through, or releases, a handle that is already released.
UsesReleased(i) ==
    \E h \in DropCalls[i].uses \cup {DropCalls[i].handle} :
        \/ Has(released, h)
        \/ \E j \in 1..(i - 1) : DropCalls[j].handle = h

DropResourceHolder ==
    /\ pc = "drop"
    /\ released' = released \o DropOrder
    /\ use_after_destroy' =
            (use_after_destroy \/ \E i \in 1..Len(DropCalls) : UsesReleased(i))
    /\ swapchain' = {}
    /\ pc' = "done"
    /\ UNCHANGED <<error, acquired, shader_modules, queue_families, queue_family, scale_factor, command_pool_family,
                   supported_formats, surface_color_format, surface_extent,
                   configure_swapchain, framebuffer, viewport, fence, inflight, tick_ops,
                   last_event, tick_after, last_outcome, last_event_extent, cfg_target>>

Next ==
    \/ CreateInstance
    \/ CreateSurface
    \/ EnumerateAdapters
    \/ OpenDevice
    \/ CreateCommandPool
    \/ SurfaceColorFormat
    \/ CreateRenderPass
    \/ CreatePipelineLayout
    \/ VertexShader
    \/ FragmentShader
    \/ CreateGraphicsPipeline
    \/ CreateFence
    \/ CreateSemaphore
    \/ EnterEventLoop
    \/ Resized
    \/ ScaleFactorChanged
    \/ MainEventsCleared
    \/ CloseRequested
    \/ RedrawRequested
    \/ WaitForFence
    \/ ResetFence
    \/ SkipFrame
    \/ ConfigureSwapchain
    \/ AcquireImage
    \/ RecordFrame
    \/ Submit
    \/ Present
    \/ GpuRetire
    \/ DropResourceHolder

Spec == Init /\ [][Next]_vars

(***************************************************************************)
(* Properties.                                                             *)
(***************************************************************************)
\* Positions inside the RedrawRequested handler after the fence wait.
TickPcs == {"reset", "check", "acquire", "record", "submit", "present"}

\* The last RedrawRequested handler has returned and nothing was handled since.
TickReturned == pc = "idle" /\ last_event = "redraw"

ConfigureCalls == Count(tick_ops, "configure_ok") + Count(tick_ops, "configure_err")

\* C1: every redraw tick whose fence wait, configure (when one is made) and
\* image acquire do not fail records and submits exactly one command buffer
\* and presents the acquired image, also when the tick starts with the dirty
\* flag false.
C1_EveryTickDraws ==
    (/\ TickReturned
     /\ Has(tick_ops, "wait_ok")
     /\ ~Has(tick_ops, "configure_err")
     /\ ~Has(tick_ops, "acquire_err"))
    => /\ Count(tick_ops, "record") = 1
       /\ Count(tick_ops, "submit") = 1
       /\ Has(tick_ops, "present_ok") \/ Has(tick_ops, "present_err")

\* C2: at most one frame is outstanding: the command pool is reset, and the
\* next frame submitted, only once the previously submitted frame has retired,
\* also when the GPU needs longer than the wait timeout.
C2_OneFrameInFlight ==
    /\ inflight <= 1
    /\ (pc \in TickPcs /\ Has(tick_ops, "reset_pool") /\ ~Has(tick_ops, "submit"))
            => inflight = 0

\* C3: the dirty flag is true at startup, after a resize event, after a DPI
\* event, after a failed acquire and after a failed present, and false right
\* after a successful configure.
C3_DirtyFlag ==
    /\ (pc = "idle" /\ last_event = "startup") => configure_swapchain
    /\ (pc = "idle" /\ last_event \in {"resized", "scale_factor_changed"})
            => configure_swapchain
    /\ (TickReturned /\ last_outcome \in {"acquire_failed", "present_failed"})
            => configure_swapchain
    /\ pc = "acquire" => ~configure_swapchain

\* C3 witness: a tick configured the swapchain (flag cleared) and its present
\* failed (flag set again).
C3_Witness ==
    /\ TickReturned
    /\ last_outcome = "present_failed"
    /\ Has(tick_ops, "configure_ok")
    /\ configure_swapchain

\* C4 (as claimed): the target extent of every successful configuration is
\* the extent carried by the most recent resize/DPI event (the initial extent
\* when there was none), also for a reconfiguration after a failed acquire or
\* present.
C4_TargetIsEventExtent ==
    pc = "acquire" => cfg_target = last_event_extent

\* C4 (amended): a configuration made in the first tick or in a tick that
\* directly follows a resize/DPI event has the event's extent (the initial
\* extent) as target; a reconfiguration in a tick that follows another tick
\* has the actual extent of the previous configuration as target.
C4_TargetIsAuthoritativeExtent ==
    [][(pc = "check" /\ pc' = "acquire")
        => /\ tick_after \in {"startup", "resized", "scale_factor_changed"}
                => cfg_target' = last_event_extent
           /\ tick_after = "redraw" => cfg_target' \in swapchain]_vars

\* C4 witness: a reconfiguration after a failed acquire or present was made
\* with a target that is not the extent of the last event.
C4_Witness ==
    /\ pc = "acquire"
    /\ tick_after = "redraw"
    /\ last_outcome \in {"acquire_failed", "present_failed"}
    /\ cfg_target # last_event_extent

\* Handles of s other than those in skip, in the order of s.
Without(s, skip) == SelectSeq(s, LAMBDA h : h \notin skip)

\* C5 (as claimed): teardown releases every handle exactly once, in exactly
\* the reverse of the order of acquisition, and no call uses a released handle.
C5_ReverseOfAcquisition ==
    pc = "done"
    => /\ \A i \in 1..Len(acquired) : Count(released, acquired[i]) = 1
       /\ Without(released, {"swapchain"}) = Reverse(acquired)
       /\ ~use_after_destroy

\* C5 (amended): teardown releases every handle exactly once, in the order
\* semaphore, fence, pipeline, pipeline layout, render pass, command pool,
\* swapchain unconfigure, surface, then the device and the instance; this is
\* the reverse of the order of acquisition except for the device, which was
\* acquired after the surface and is released after it; no call uses a
\* released handle.
C5_TeardownOrder ==
    pc = "done"
    => /\ \A i \in 1..Len(acquired) : Count(released, acquired[i]) = 1
       /\ released = <<"rendering_semaphore", "submission_fence", "pipeline",
                       "pipeline_layout", "render_pass", "command_pool", "swapchain",
                       "surface", "device", "instance">>
       /\ Without(released, {"swapchain", "device"})
            = Without(Reverse(acquired), {"device"})
       /\ ~use_after_destroy

\* C5 witness: the loop ended on a close request and Drop has run.
C5_Witness ==
    /\ pc = "done"
    /\ error = "none"
    /\ Len(released) = Len(acquired) + 1

\* A tick that directly follows a Resized event has passed its configure call.
AfterResizeConfigured ==
    /\ tick_after = "resized"
    /\ pc \in {"acquire", "record", "submit", "present"} \/ TickReturned

\* C6: in the tick that directly follows a resize to e there is exactly one
\* configure call, its target is e, and nothing is submitted before it.
C6_ResizeThenRedraw ==
    /\ AfterResizeConfigured
            => /\ ConfigureCalls = 1
               /\ cfg_target = last_event_extent
    /\ (tick_after = "resized" /\ pc \in TickPcs \cup {"idle"})
            => \A i \in 1..Len(tick_ops) :
                    tick_ops[i] = "submit"
                        => \E j \in 1..(i - 1) : tick_ops[j] = "configure_ok"

\* C6 witness: a resize to 800x600, then a tick that configured with that
\* target and presented.
C6_Witness ==
    /\ tick_after = "resized"
    /\ TickReturned
    /\ last_outcome = "presented"
    /\ cfg_target = Extent(800, 600)
    /\ ConfigureCalls = 1

\* C7: when shader compilation fails, startup ends with no pipeline, render
\* pass, pipeline layout or shader module created and not destroyed.
C7_NoLeakOnShaderError ==
    error = "Failed to compile shader"
    => /\ Live \cap {"pipeline", "render_pass", "pipeline_layout"} = {}
       /\ shader_modules = {}

\* The format the claim names for a query result.
FirstSrgbElseFirstElseDefault(queried, format) ==
    LET formats == IF queried = {} THEN <<>> ELSE CHOOSE s \in queried : TRUE
    IN  IF \E i \in 1..Len(formats) : ChannelType(formats[i]) = "Srgb"
        THEN \E i \in 1..Len(formats) :
                /\ ChannelType(formats[i]) = "Srgb"
                /\ \A j \in 1..(i - 1) : ChannelType(formats[j]) # "Srgb"
                /\ format = formats[i]
        ELSE IF Len(formats) > 0 THEN format = formats[1]
        ELSE format = "Rgba8Srgb"

\* C8: the negotiated format is the first sRGB format of the list, else the
\* first entry, else Rgba8Srgb when the list is empty or the query gave none.
C8_NegotiatedFormat ==
    pc = "create_render_pass"
    => FirstSrgbElseFirstElseDefault(supported_formats, surface_color_format)

\* C8 witness: an sRGB format behind a non-sRGB one is chosen.
C8_Witness ==
    /\ pc = "create_render_pass"
    /\ supported_formats = {<<"Bgra8Unorm", "Bgra8Srgb">>}
    /\ surface_color_format = "Bgra8Srgb"

\* C9: a fence-wait timeout is fatal: the tick performs no further GPU
\* operation and the handler never returns to the event loop.
C9_TimeoutIsFatal ==
    Has(tick_ops, "wait_timeout")
    => /\ Len(tick_ops) = 1
       /\ pc # "idle"

\* C10: after a tick whose acquire or present failed the program is back in
\* the event loop, and in the next tick the fence wait does not time out and
\* the swapchain is reconfigured before anything is acquired.
C10_FailuresRecoverable ==
    /\ (TickReturned /\ last_outcome \in {"acquire_failed", "present_failed"})
            => error = "none"
    /\ (last_outcome \in {"acquire_failed", "present_failed"} /\ pc \in TickPcs)
            => /\ tick_ops[1] = "wait_ok"
               /\ pc \in {"acquire", "record", "submit", "present"}
                    => Has(tick_ops, "configure_ok")

\* v is x times the scale factor (in quarters), rounded to the nearest integer.
IsScaled(v, x, quarters) ==
    /\ 4 * v - x * quarters <= 2
    /\ x * quarters - 4 * v <= 2

\* C11: with no resize/DPI event before the first tick, the target of the
\* first configuration is the logical size 2160x3840 scaled by the monitor's
\* scale factor; for scale factor 1.0 it is exactly 2160x3840.
C11_InitialExtent ==
    (tick_after = "startup" /\ ConfigureCalls = 1)
    => /\ IsScaled(cfg_target.width, 2160, scale_factor)
       /\ IsScaled(cfg_target.height, 3840, scale_factor)
       /\ scale_factor = 4 => cfg_target = Extent(2160, 3840)

\* C11 witness: the first configuration on a monitor of scale factor 1.0.
C11_Witness ==
    /\ tick_after = "startup"
    /\ pc = "acquire"
    /\ scale_factor = 4
    /\ cfg_target = Extent(2160, 3840)

\* Family i of the list supports presentation to the surface and graphics.
Compatible(families, i) == families[i].present /\ families[i].graphics

\* C12: the selected queue family is the first that supports presentation
\* and graphics; with no such family startup aborts without opening a device;
\* once chosen the family never changes, and the command pool is created for
\* it.
C12_QueueFamily ==
    [][/\ (pc = "open_device" /\ pc' = "create_command_pool")
            => /\ queue_family' \in 1..Len(queue_families)
               /\ Compatible(queue_families, queue_family')
               /\ \A j \in 1..(queue_family' - 1) : ~Compatible(queue_families, j)
       /\ (pc = "open_device"
           /\ \A i \in 1..Len(queue_families) : ~Compatible(queue_families, i))
            => /\ pc' = "aborted"
               /\ error' = "No compatible queue family found"
               /\ ~Has(acquired', "device")
       /\ queue_family # 0 => queue_family' = queue_family
       /\ command_pool_family # 0 => command_pool_family' = command_pool_family
       /\ Has(acquired', "command_pool")
            => command_pool_family' = queue_family' /\ queue_family' # 0]_vars

\* C12 witness: the second family is selected because the first one cannot
\* present, and the command pool is created for it.
C12_Witness ==
    /\ pc = "negotiate_format"
    /\ Len(queue_families) = 2
    /\ queue_families[1].graphics /\ ~queue_families[1].present
    /\ queue_family = 2
    /\ command_pool_family = 2

\* C13: a failed configure abandons the tick without being fatal: nothing is
\* acquired, submitted or presented, the dirty flag stays true and the event
\* loop goes on.
C13_ConfigureFailureAbandonsTick ==
    Has(tick_ops, "configure_err")
    => /\ error = "none"
       /\ configure_swapchain
       /\ ~Has(tick_ops, "acquire_ok") /\ ~Has(tick_ops, "submit")

\* C14: the transient framebuffer of a frame is not destroyed, and the
\* command pool is not reset, while the frame's GPU work is in flight.
C14_FenceGuardsTransients ==
    /\ inflight > 0 => framebuffer # {}
    /\ (pc \in TickPcs /\ Has(tick_ops, "reset_pool") /\ ~Has(tick_ops, "submit"))
            => inflight = 0

Presents == {"present_ok", "present_err"}

\* Operation a of the tick has an operation b before it.
Preceded(a, b) ==
    \A i \in 1..Len(tick_ops) :
        tick_ops[i] = a => \E j \in 1..(i - 1) : tick_ops[j] = b

\* C15: in every tick a submit follows a successful acquire and the
\* recording, a present follows the submit, a tick whose acquire fails
\* neither submits nor presents, and a tick that has recorded is either about
\* to submit or present or has presented.
C15_TickOrder ==
    /\ Preceded("record", "acquire_ok")
    /\ Preceded("submit", "record")
    /\ \A p \in Presents : Preceded(p, "submit")
    /\ Has(tick_ops, "acquire_err")
            => /\ ~Has(tick_ops, "submit")
               /\ \A p \in Presents : ~Has(tick_ops, p)
    /\ Has(tick_ops, "record")
            => \/ pc \in {"submit", "present"}
               \/ \E p \in Presents : Has(tick_ops, p)

\* C15 witness: a tick went through acquire, record, submit and present.
C15_Witness ==
    /\ TickReturned
    /\ Has(tick_ops, "acquire_ok")
    /\ Has(tick_ops, "submit")
    /\ Has(tick_ops, "present_ok")

\* C16: after a successful configure surface_extent is the actual extent of
\* the swapchain, and the framebuffer, viewport and scissor of the frame
\* recorded next have that extent.
C16_ActualExtentIsAuthoritative ==
    /\ pc = "acquire" => swapchain = {surface_extent}
    /\ pc = "submit"
            => /\ framebuffer = swapchain
               /\ \A e \in swapchain : viewport.w = e.width /\ viewport.h = e.height

\* C17: the recorded viewport/scissor rectangle is (0, 0, width, height) of
\* the current extent, for every u32 width and height.
C17_ViewportIsExtent ==
    pc = "submit"
    => viewport = [x |-> 0, y |-> 0, w |-> surface_extent.width,
                   h |-> surface_extent.height]

\* C18: every acquire_image call comes directly after a successful configure
\* call of the same tick, from a configured swapchain whose extent is the
\* current one and with the dirty flag false.
C18_AcquireAfterConfigure ==
    /\ pc = "acquire" => ~configure_swapchain /\ swapchain = {surface_extent}
    /\ \A i \in 1..Len(tick_ops) :
            tick_ops[i] \in {"acquire_ok", "acquire_err"}
                => i > 1 /\ tick_ops[i - 1] = "configure_ok"

\* C18 witness: the reconfiguration after a failed present, about to acquire.
C18_Witness ==
    /\ pc = "acquire"
    /\ tick_after = "redraw"
    /\ last_outcome = "present_failed"
    /\ swapchain # {}

\* C19: whenever the event loop is between ticks or a tick starts waiting,
\* the fence is signaled or a submitted frame is pending that will signal it.
C19_FenceWillSignal ==
    pc \in {"idle", "wait"} => fence = "signaled" \/ inflight > 0

\* C20: when a close request leads to teardown no frame is in flight at the
\* time the handles are destroyed.
C20_TeardownAfterLastFrame ==
    (pc = "done" /\ error = "none") => inflight = 0
====
